---- MODULE Spec2Model ----
(***************************************************************************)
(* Model of the ddu column "rich_filename"                                 *)
(* (denops/@ddu-columns/rich_filename.ts): the git status resolver         *)
(* (initGit, checkGitDiff, getGitStatus), the tree indentation resolver    *)
(* (setLastFilenameInDir, getIndent) and the icon lookup (getIcon).        *)
(*                                                                         *)
(* A JavaScript string is modelled as a sequence of one-character strings, *)
(* so that slicing, trimming, splitting, prefix tests and the code-unit    *)
(* order of < and > are computed as the code computes them.  The box       *)
(* drawing characters of getIndent are written with the ASCII stand-ins    *)
(* "L" (U+2514), "+" (U+251C) and "|" (U+2502).                            *)
(***************************************************************************)
EXTENDS Naturals, Integers, Sequences, FiniteSets, TLC

VARIABLES
  gitRoot,            \* Column.gitRoot: string | undefined
  gitFilenames,       \* Column.gitFilenames: Map<string, string>
  gitStatusHash,      \* Column.gitStatusHash: string
  lastFilenameInDir,  \* Column.lastFilenameInDir: Map<string, string>
  pc,                 \* position of checkGitDiff: "idle" or "awaiting" (at the await of line 205)
  ret,                \* what the last operation returned (or that it threw)
  fetched,            \* history: raw text delivered by the last completed 'git status' call
  items,              \* host: args.items of the render pass in progress
  columnParams,       \* host: args.columnParams of the render pass in progress
  phase,              \* host: "idle", "pending" (batch handed over) or "measured" (getLength done)
  lastWinner          \* history: per parent path, the last element of the latest pass that ended in it

vars ==
  <<gitRoot, gitFilenames, gitStatusHash, lastFilenameInDir, pc, ret, fetched,
    items, columnParams, phase, lastWinner>>

-----------------------------------------------------------------------------
(* Bounds *)

MaxLines == 2     \* lines in one porcelain text
MaxBatch == 2     \* items in one batch handed to getLength
MaxLevel == 3     \* nesting levels asked of getIndent

-----------------------------------------------------------------------------
(* JavaScript values *)

Undefined == <<"<undefined>">>       \* undefined / absent optional field
NullStr == <<"<null>">>              \* null where a string is expected
Null == [null |-> TRUE]              \* null where an object is expected
Void == [op |-> "none"]

\* The characters the model uses, in increasing UTF-16 code unit order.
CodeUnits ==
  << "\n", " ", "+", "-", ".", "/", ">", "?",
     "A", "B", "C", "D", "L", "M", "P", "R", "S", "T", "U", "Y",
     "a", "b", "c", "d", "e", "f", "g", "h", "i", "j", "k", "l", "m",
     "n", "o", "p", "r", "s", "t", "u", "v", "w", "y", "|" >>

Ord(c) == CHOOSE i \in 1..Len(CodeUnits) : CodeUnits[i] = c

Min(a, b) == IF a < b THEN a ELSE b

\* a < b on strings: lexicographic by code unit, a proper prefix is smaller.
RECURSIVE StrLt(_, _)
StrLt(a, b) ==
  IF b = <<>> THEN FALSE
  ELSE IF a = <<>> THEN TRUE
  ELSE IF Head(a) = Head(b) THEN StrLt(Tail(a), Tail(b))
  ELSE Ord(Head(a)) < Ord(Head(b))

StrGt(a, b) == StrLt(b, a)

\* String.prototype.startsWith
StartsWith(s, p) == Len(p) <= Len(s) /\ SubSeq(s, 1, Len(p)) = p

\* White space as String.prototype.trim sees it (of the characters modelled).
IsSpace(c) == c \in {" ", "\n"}

\* trimEnd that strips blanks only and keeps line ends
RECURSIVE trimEndBlanksOnly(_)
trimEndBlanksOnly(s) ==
  IF s # <<>> /\ s[Len(s)] = " " THEN trimEndBlanksOnly(SubSeq(s, 1, Len(s) - 1)) ELSE s

RECURSIVE trimEnd(_)
trimEnd(s) ==
  IF s # <<>> /\ IsSpace(s[Len(s)]) THEN trimEnd(SubSeq(s, 1, Len(s) - 1)) ELSE s

RECURSIVE trimStart(_)
trimStart(s) ==
  IF s # <<>> /\ IsSpace(Head(s)) THEN trimStart(Tail(s)) ELSE s

trim(s) == trimStart(trimEnd(s))

\* s.slice(from, to) and s.slice(from), for 0 <= from <= to
slice(s, from, to) == SubSeq(s, from + 1, Min(to, Len(s)))
sliceFrom(s, from) == SubSeq(s, from + 1, Len(s))

\* s.split(sep) for a one-character separator: never empty, "" gives [""]
RECURSIVE splitAcc(_, _, _)
splitAcc(s, sep, cur) ==
  IF s = <<>> THEN <<cur>>
  ELSE IF Head(s) = sep THEN <<cur>> \o splitAcc(Tail(s), sep, <<>>)
  ELSE splitAcc(Tail(s), sep, Append(cur, Head(s)))

split(s, sep) == splitAcc(s, sep, <<>>)

\* parts.join(sep)
RECURSIVE join(_, _)
join(parts, sep) ==
  IF parts = <<>> THEN <<>>
  ELSE IF Len(parts) = 1 THEN parts[1]
  ELSE parts[1] \o <<sep>> \o join(Tail(parts), sep)

-----------------------------------------------------------------------------
(* Map<string, string>: entries in insertion order, as a JavaScript Map     *)
(* iterates them; set() on an existing key keeps the entry's position.      *)

EmptyMap == <<>>

MapKeys(m) == [i \in 1..Len(m) |-> m[i].key]

MapHas(m, k) == \E i \in 1..Len(m) : m[i].key = k

\* m.get(k) ?? dflt (no Map of the program holds undefined or null)
MapGet(m, k, dflt) ==
  IF MapHas(m, k) THEN m[CHOOSE i \in 1..Len(m) : m[i].key = k].value ELSE dflt

MapSet(m, k, v) ==
  IF MapHas(m, k)
  THEN [i \in 1..Len(m) |-> IF m[i].key = k THEN [key |-> k, value |-> v] ELSE m[i]]
  ELSE Append(m, [key |-> k, value |-> v])

\* a ?? b, for an optional string
Coalesce(a, b) == IF a = Undefined \/ a = NullStr THEN b ELSE a

-----------------------------------------------------------------------------
(* Static tables *)

palette ==
  [ default |-> "!default", aqua |-> "!aqua", beige |-> "!beige", blue |-> "!blue",
    brown |-> "!brown", darkBlue |-> "!darkBlue", darkOrange |-> "!darkOrange",
    green |-> "!green", lightGreen |-> "!lightGreen", lightPurple |-> "!lightPurple",
    orange |-> "!orange", pink |-> "!pink", purple |-> "!purple", red |-> "!red",
    salmon |-> "!salmon", yellow |-> "!yellow" ]

statusNumbers ==
  [ delete |-> 8, modified |-> 7, type_change |-> 6, add |-> 5,
    rename |-> 4, copy |-> 3, update |-> 2, undefined |-> 1 ]

gitStatuses ==
  << [key |-> <<"M">>, value |-> [status |-> statusNumbers.modified, highlightGroup |-> "git_modified", color |-> palette.green]],
     [key |-> <<"T">>, value |-> [status |-> statusNumbers.type_change, highlightGroup |-> "git_type_change", color |-> palette.yellow]],
     [key |-> <<"A">>, value |-> [status |-> statusNumbers.add, highlightGroup |-> "git_add", color |-> palette.blue]],
     [key |-> <<"D">>, value |-> [status |-> statusNumbers.delete, highlightGroup |-> "git_delete", color |-> palette.salmon]],
     [key |-> <<"R">>, value |-> [status |-> statusNumbers.rename, highlightGroup |-> "git_rename", color |-> palette.yellow]],
     [key |-> <<"C">>, value |-> [status |-> statusNumbers.copy, highlightGroup |-> "git_copy", color |-> palette.blue]],
     [key |-> <<"U">>, value |-> [status |-> statusNumbers.update, highlightGroup |-> "git_copy", color |-> palette.green]],
     [key |-> <<"?", "?">>, value |-> [status |-> statusNumbers.undefined, highlightGroup |-> "git_undefined", color |-> palette.yellow]] >>

-----------------------------------------------------------------------------
(* Git status resolver *)

\* toHashString(digestSync('MD5', encode(s))): a digest of 32 hex digits.  Over
\* the bounded set of texts of this model MD5 has no collision, and no digest is
\* the empty string gitStatusHash starts with; the digest is written as the
\* text behind a marker, which has exactly these two properties.
MD5(s) == <<"md5">> \o s

\* The loop of lines 213-218 with a status field of two characters
RECURSIVE setGitFilenamesShortField(_, _, _, _)
setGitFilenamesShortField(m, root, lines, i) ==
  IF i > Len(lines) THEN m
  ELSE LET gitStatus == lines[i]
           status == trim(slice(gitStatus, 0, 2))
           name == sliceFrom(gitStatus, 2)
       IN setGitFilenamesShortField(MapSet(m, root \o <<"/">> \o name, status), root, lines, i + 1)

\* Lines 213-218: the loop that fills the fresh Map, from line i on.
RECURSIVE setGitFilenames(_, _, _, _)
setGitFilenames(m, root, lines, i) ==
  IF i > Len(lines) THEN m
  ELSE LET gitStatus == lines[i]
           status == trim(slice(gitStatus, 0, 3))
           name == sliceFrom(gitStatus, 3)
       IN setGitFilenames(MapSet(m, root \o <<"/">> \o name, status), root, lines, i + 1)

\* The scan of lines 227-239 with the comparison turned round (st < s)
RECURSIVE scanGitFilenamesLargest(_, _, _, _)
scanGitFilenamesLargest(m, fullPath, i, st) ==
  IF i > Len(m) THEN st
  ELSE LET key == m[i].key
           s == MapGet(m, key, NullStr)
       IN IF StartsWith(key, fullPath) /\ s # NullStr /\ (st = NullStr \/ StrLt(st, s))
          THEN scanGitFilenamesLargest(m, fullPath, i + 1, s)
          ELSE scanGitFilenamesLargest(m, fullPath, i + 1, st)

\* Lines 227-239: the scan over the keys, from entry i on
RECURSIVE scanGitFilenames(_, _, _, _)
scanGitFilenames(m, fullPath, i, st) ==
  IF i > Len(m) THEN st
  ELSE LET key == m[i].key
           s == MapGet(m, key, NullStr)
       IN IF StartsWith(key, fullPath) /\ s # NullStr /\ (st = NullStr \/ StrGt(st, s))
          THEN scanGitFilenames(m, fullPath, i + 1, s)
          ELSE scanGitFilenames(m, fullPath, i + 1, st)

\* getGitStatus that goes on to the scan when the exact key has an unknown code
getGitStatusFallThrough(m, fullPath) ==
  LET status == MapGet(m, fullPath, <<>>)
  IN IF status # <<>> /\ MapHas(gitStatuses, status)
     THEN MapGet(gitStatuses, status, Null)
     ELSE LET st == scanGitFilenames(m, fullPath, 1, NullStr)
          IN IF st = NullStr THEN Null
             ELSE MapGet(gitStatuses, st, Null)

\* Lines 221-245
getGitStatus(m, fullPath) ==
  LET status == MapGet(m, fullPath, <<>>)
  IN IF status # <<>>
     THEN MapGet(gitStatuses, status, Null)
     ELSE LET st == scanGitFilenames(m, fullPath, 1, NullStr)
          IN IF st = NullStr THEN Null
             ELSE MapGet(gitStatuses, st, Null)

-----------------------------------------------------------------------------
(* Paths and names (std/path, posix) *)

Last(q) == q[Len(q)]
Front(q) == SubSeq(q, 1, Len(q) - 1)

RECURSIVE stripTrailingSeparators(_)
stripTrailingSeparators(path) ==
  IF Len(path) > 1 /\ Last(path) = "/" THEN stripTrailingSeparators(Front(path)) ELSE path

\* basename(path): the last segment, trailing separators dropped
basename(path) == Last(split(stripTrailingSeparators(path), "/"))

\* extname(path): from the last "." of the last segment on; "" when there is no
\* ".", when the "." opens the segment, and for the segment ".."
extname(path) ==
  LET b == basename(path)
      dots == { i \in 1..Len(b) : b[i] = "." }
  IN IF dots = {} THEN <<>>
     ELSE LET d == CHOOSE i \in dots : \A j \in dots : j <= i
          IN IF d = 1 \/ b = <<".", ".">> THEN <<>> ELSE SubSeq(b, d, Len(b))

\* fn.strwidth for the characters of the model: one cell each
strwidth(str) == Len(str)

-----------------------------------------------------------------------------
(* Tree indentation resolver *)

\* lastFilenameInDir is read with get and written with set only, its iteration
\* order is never observed: it is a function from the keys present to values.
TableGet(m, k, dflt) == IF k \in DOMAIN m THEN m[k] ELSE dflt

TableSet(m, k, v) == [x \in DOMAIN m \cup {k} |-> IF x = k THEN v ELSE m[x]]

\* status?.size ?? dflt, status?.time ?? dflt
NumberOr(status, field, dflt) == IF field \in DOMAIN status THEN status[field] ELSE dflt

Compare3(lt, gt) == IF lt THEN 0 - 1 ELSE IF gt THEN 1 ELSE 0

\* sortByFilename with the order turned round
sortByFilenameDescending(a, b) ==
  LET nameA == Coalesce(a.treePath, a.word)
      nameB == Coalesce(b.treePath, b.word)
  IN Compare3(StrGt(nameA, nameB), StrLt(nameA, nameB))

\* Lines 431-435
sortByFilename(a, b) ==
  LET nameA == Coalesce(a.treePath, a.word)
      nameB == Coalesce(b.treePath, b.word)
  IN Compare3(StrLt(nameA, nameB), StrGt(nameA, nameB))

\* Lines 437-441
sortByExtension(a, b) ==
  LET nameA == extname(a.word)
      nameB == extname(b.word)
  IN Compare3(StrLt(nameA, nameB), StrGt(nameA, nameB))

\* sortBySize with an unknown size counted as the greatest
sortBySizeUnknownLast(a, b) ==
  LET sizeA == NumberOr(a.status, "size", 1000000)
      sizeB == NumberOr(b.status, "size", 1000000)
  IN Compare3(sizeA < sizeB, sizeA > sizeB)

\* Lines 443-447
sortBySize(a, b) ==
  LET sizeA == NumberOr(a.status, "size", 0 - 1)
      sizeB == NumberOr(b.status, "size", 0 - 1)
  IN Compare3(sizeA < sizeB, sizeA > sizeB)

\* Lines 449-453
sortByTime(a, b) ==
  LET timeA == NumberOr(a.status, "time", 0 - 1)
      timeB == NumberOr(b.status, "time", 0 - 1)
  IN Compare3(timeA < timeB, timeA > timeB)

\* Lines 455-457
sortByNone(a, b) == 0

\* columnParams.sort.toLowerCase(), on the values of sort the model hands over
toLowerCase(str) ==
  CASE str = "Size" -> "size"
    [] str = "FILENAME" -> "filename"
    [] OTHER -> str

\* Lines 256-265: the comparator chosen for sortMethod, applied to a and b
sortFunc(sortMethod, a, b) ==
  IF sortMethod = "extension" THEN sortByExtension(a, b)
  ELSE IF sortMethod = "size" THEN sortBySize(a, b)
  ELSE IF sortMethod = "time" THEN sortByTime(a, b)
  ELSE IF sortMethod = "filename" THEN sortByFilename(a, b)
  ELSE sortByNone(a, b)

\* Array.prototype.sort is stable: x goes behind every element that does not
\* compare greater than it.
RECURSIVE insertSorted(_, _, _)
insertSorted(sorted, x, sortMethod) ==
  IF sorted # <<>> /\ sortFunc(sortMethod, Last(sorted), x) > 0
  THEN Append(insertSorted(Front(sorted), x, sortMethod), Last(sorted))
  ELSE Append(sorted, x)

RECURSIVE sort(_, _)
sort(arr, sortMethod) ==
  IF arr = <<>> THEN <<>>
  ELSE insertSorted(sort(Front(arr), sortMethod), Last(arr), sortMethod)

\* Lines 248-254: the items of the greatest __level
levelItemsOf(its) ==
  LET levels == { its[i].level : i \in 1..Len(its) }
  IN SelectSeq(its, LAMBDA item : \A l \in levels : l <= item.level)

\* Lines 256-271
sortedItemsOf(its, params) ==
  LET sortMethod == toLowerCase(params.sort)
      sorted == sort(levelItemsOf(its), sortMethod)
  IN IF params.sortTreesFirst
     THEN SelectSeq(sorted, LAMBDA item : item.isTree)
            \o SelectSeq(sorted, LAMBDA item : ~item.isTree)
     ELSE sorted

\* setLastFilenameInDir that records the last element of every parent of the tier
RECURSIVE recordEach(_, _, _)
recordEach(m, sortedItems, i) ==
  IF i > Len(sortedItems) THEN m
  ELSE LET paths == split(Coalesce(sortedItems[i].treePath, <<>>), "/")
       IN recordEach(TableSet(m, join(Front(paths), "/"), Last(paths)), sortedItems, i + 1)

setLastFilenameInDirPerParent(m, its, params) ==
  recordEach(m, sortedItemsOf(its, params), 1)

\* Lines 247-281
setLastFilenameInDir(m, its, params) ==
  LET sortedItems == sortedItemsOf(its, params)
  IN IF Len(sortedItems) > 0
     THEN LET item == sortedItems[Len(sortedItems)]
              path == Coalesce(item.treePath, <<>>)
              paths == split(path, "/")
              name == Last(paths)
              parentPath == join(Front(paths), "/")
          IN TableSet(m, parentPath, name)
     ELSE m

Corner == <<"L", " ">>      \* U+2514 and a blank
Tee == <<"+", " ">>         \* U+251C and a blank
Bar == <<"|", " ">>         \* U+2502 and a blank
Blank == <<" ", " ">>

\* Lines 287-310: the loop from step i on; paths is what is left of the path
RECURSIVE indentLoop(_, _, _, _, _)
indentLoop(m, paths, level, i, indents) ==
  IF i >= level \/ paths = <<>> THEN indents
  ELSE LET parentPath == join(Front(paths), "/")
           name == Last(paths)
           lastName == TableGet(m, parentPath, <<>>)
           isLast == lastName = name
           glyph == IF i = 0
                    THEN (IF isLast THEN Corner ELSE Tee)
                    ELSE (IF isLast THEN Blank ELSE Bar)
       IN indentLoop(m, Front(paths), level, i + 1, glyph \o indents)

\* Lines 283-312
getIndent(m, path, level) == indentLoop(m, split(path, "/"), level, 0, <<>>)

-----------------------------------------------------------------------------
(* Icon lookup *)

defaultFileIcon == [icon |-> "U+E612", highlightGroup |-> "file", color |-> "Normal"]

specialIcons ==
  << [key |-> "directory_expanded", value |-> [icon |-> "U+E5FE", highlightGroup |-> "special_directory_expanded", color |-> palette.green]],
     [key |-> "directory_link", value |-> [icon |-> "U+F482", highlightGroup |-> "special_directory_link", color |-> palette.green]],
     [key |-> "directory", value |-> [icon |-> "U+E5FF", highlightGroup |-> "special_directory", color |-> palette.green]],
     [key |-> "link", value |-> [icon |-> "U+F0C1", highlightGroup |-> "special_link", color |-> palette.green]] >>

extensionIcons ==
  << [key |-> <<"h", "t", "m", "l">>, value |-> [icon |-> "U+E60E", highlightGroup |-> "file_html", color |-> palette.darkOrange]],
     [key |-> <<"h", "t", "m">>, value |-> [icon |-> "U+E60E", highlightGroup |-> "file_htm", color |-> palette.darkOrange]],
     [key |-> <<"s", "a", "s", "s">>, value |-> [icon |-> "U+E603", highlightGroup |-> "file_sass", color |-> palette.default]],
     [key |-> <<"s", "c", "s", "s">>, value |-> [icon |-> "U+E603", highlightGroup |-> "file_scss", color |-> palette.pink]],
     [key |-> <<"c", "s", "s">>, value |-> [icon |-> "U+E614", highlightGroup |-> "file_css", color |-> palette.blue]],
     [key |-> <<"m", "d">>, value |-> [icon |-> "U+E609", highlightGroup |-> "file_md", color |-> palette.yellow]],
     [key |-> <<"m", "a", "r", "k", "d", "o", "w", "n">>, value |-> [icon |-> "U+E609", highlightGroup |-> "file_markdown", color |-> palette.yellow]],
     [key |-> <<"j", "s", "o", "n">>, value |-> [icon |-> "U+E60B", highlightGroup |-> "file_json", color |-> palette.beige]],
     [key |-> <<"j", "s">>, value |-> [icon |-> "U+E60C", highlightGroup |-> "file_js", color |-> palette.beige]],
     [key |-> <<"r", "b">>, value |-> [icon |-> "U+E791", highlightGroup |-> "file_rb", color |-> palette.red]],
     [key |-> <<"p", "h", "p">>, value |-> [icon |-> "U+E608", highlightGroup |-> "file_php", color |-> palette.purple]],
     [key |-> <<"p", "y">>, value |-> [icon |-> "U+E606", highlightGroup |-> "file_py", color |-> palette.yellow]],
     [key |-> <<"p", "y", "c">>, value |-> [icon |-> "U+E606", highlightGroup |-> "file_pyc", color |-> palette.yellow]],
     [key |-> <<"v", "i", "m">>, value |-> [icon |-> "U+E62B", highlightGroup |-> "file_vim", color |-> palette.green]],
     [key |-> <<"t", "o", "m", "l">>, value |-> [icon |-> "U+E615", highlightGroup |-> "file_toml", color |-> palette.default]],
     [key |-> <<"s", "h">>, value |-> [icon |-> "U+E795", highlightGroup |-> "file_sh", color |-> palette.lightPurple]],
     [key |-> <<"g", "o">>, value |-> [icon |-> "U+E627", highlightGroup |-> "file_go", color |-> palette.aqua]],
     [key |-> <<"t", "s">>, value |-> [icon |-> "U+E628", highlightGroup |-> "file_ts", color |-> palette.blue]] >>

\* getIcon that looks at isLink before isDirectory
getIconLinkFirst(fileName, expanded, isDirectory, isLink) ==
  IF expanded THEN MapGet(specialIcons, "directory_expanded", defaultFileIcon)
  ELSE IF isLink THEN MapGet(specialIcons, "link", defaultFileIcon)
  ELSE IF isDirectory THEN MapGet(specialIcons, "directory", defaultFileIcon)
  ELSE LET ext == sliceFrom(extname(fileName), 1)
       IN MapGet(extensionIcons, ext, defaultFileIcon)

\* Lines 314-334
getIcon(fileName, expanded, isDirectory, isLink) ==
  IF expanded THEN MapGet(specialIcons, "directory_expanded", defaultFileIcon)
  ELSE IF isDirectory
       THEN (IF isLink THEN MapGet(specialIcons, "directory_link", defaultFileIcon)
             ELSE MapGet(specialIcons, "directory", defaultFileIcon))
  ELSE IF isLink THEN MapGet(specialIcons, "link", defaultFileIcon)
  ELSE LET ext == sliceFrom(extname(fileName), 1)
       IN MapGet(extensionIcons, ext, defaultFileIcon)

\* Lines 336-339
getHighlightName(highlightGroup) == <<"ddu_column_rich_filename_", highlightGroup>>

-----------------------------------------------------------------------------
(* Inputs of the git status resolver *)

RepoRoot == <<"/", "r">>

\* What 'git rev-parse ... | head -1' prints: the root and a newline, or nothing.
GitRootOutputs == { RepoRoot \o <<"\n">>, <<"\n">>, <<>> }

\* Entries 'git status --porcelain -u' can report: the two status columns XY
\* and the path relative to the root.  A line is XY, a space, the path.
StatusEntries ==
  << [xy |-> <<"A", " ">>, path |-> <<"s", "/", "f">>],
     [xy |-> <<"D", " ">>, path |-> <<"s", "/", "g">>],
     [xy |-> <<" ", "M">>, path |-> <<"a">>],
     [xy |-> <<"?", "?">>, path |-> <<"s", "/", "g">>],
     [xy |-> <<"A", "M">>, path |-> <<"s", "/", "f">>],
     [xy |-> <<"M", " ">>, path |-> <<"s", "/", "d", "/", "f">>],
     [xy |-> <<"A", " ">>, path |-> <<"s", "/", "f", "b">>] >>

PorcelainLine(e) == e.xy \o <<" ">> \o e.path

\* Selections of up to MaxLines entries, in any order; git reports a path once.
LineSeqs ==
  { q \in UNION { [1..n -> 1..Len(StatusEntries)] : n \in 0..MaxLines } :
      \A i, j \in DOMAIN q :
        i # j => StatusEntries[q[i]].path # StatusEntries[q[j]].path }

PorcelainText(q) == join([i \in DOMAIN q |-> PorcelainLine(StatusEntries[q[i]])], "\n")

PorcelainTexts == { PorcelainText(q) : q \in LineSeqs }

\* The raw output: git ends a non-empty listing with a newline; the text may
\* also arrive with its trailing newline already gone.
GitStatusOutputs == PorcelainTexts \cup { t \o <<"\n">> : t \in PorcelainTexts }

\* Paths getText asks about: action.path, plus "/" for a directory.
Queries ==
  { RepoRoot \o <<"/", "s", "/", "f">>,
    RepoRoot \o <<"/", "s", "/", "g">>,
    RepoRoot \o <<"/", "a">>,
    RepoRoot \o <<"/", "b">>,
    RepoRoot \o <<"/", "s", "/">>,
    RepoRoot \o <<"/", "s", "/", "d", "/">>,
    RepoRoot \o <<"/">>,
    <<>> }

-----------------------------------------------------------------------------
(* Operations of the git status resolver *)

TreeUnchanged == UNCHANGED <<lastFilenameInDir, items, columnParams, phase, lastWinner>>

\* Lines 193-199
initGit(out) ==
  /\ pc = "idle"
  /\ IF gitRoot # Undefined
     THEN UNCHANGED gitRoot
     ELSE gitRoot' = trim(out)
  /\ ret' = [op |-> "initGit"]
  /\ UNCHANGED <<gitFilenames, gitStatusHash, pc, fetched>>
  /\ TreeUnchanged

\* Lines 201-205: the guard, then the call of 'git status' is awaited.
checkGitDiffCall ==
  /\ pc = "idle"
  /\ IF gitRoot = <<>> \/ gitRoot = Undefined
     THEN /\ ret' = [op |-> "checkGitDiff", outcome |-> "noRoot"]
          /\ UNCHANGED pc
     ELSE /\ ret' = [op |-> "checkGitDiff", outcome |-> "awaiting"]
          /\ pc' = "awaiting"
  /\ UNCHANGED <<gitRoot, gitFilenames, gitStatusHash, fetched>>
  /\ TreeUnchanged

\* checkGitDiff with an await between clearing the Map and filling it
checkGitDiffResumeTorn(gitStatusData) ==
  /\ \/ /\ pc = "awaiting"
        /\ gitStatusHash' = MD5(trimEnd(gitStatusData))
        /\ gitFilenames' = EmptyMap
        /\ fetched' = gitStatusData
        /\ pc' = "filling"
     \/ /\ pc = "filling"
        /\ gitStatusData = fetched
        /\ gitFilenames' =
             setGitFilenames(EmptyMap, gitRoot, split(trimEnd(gitStatusData), "\n"), 1)
        /\ pc' = "idle"
        /\ UNCHANGED <<gitStatusHash, fetched>>
  /\ ret' = [op |-> "checkGitDiff", outcome |-> "parsed"]
  /\ UNCHANGED gitRoot
  /\ TreeUnchanged

\* checkGitDiff that fills the Map it already has instead of a new one
checkGitDiffResumeMerging(gitStatusData) ==
  /\ pc = "awaiting"
  /\ LET gitStatusString == trimEnd(gitStatusData)
         hash == MD5(gitStatusString)
     IN IF hash = gitStatusHash
        THEN /\ ret' = [op |-> "checkGitDiff", outcome |-> "unchanged"]
             /\ UNCHANGED <<gitFilenames, gitStatusHash>>
        ELSE /\ gitStatusHash' = hash
             /\ gitFilenames' =
                  setGitFilenames(gitFilenames, gitRoot, split(gitStatusString, "\n"), 1)
             /\ ret' = [op |-> "checkGitDiff", outcome |-> "parsed"]
  /\ pc' = "idle"
  /\ fetched' = gitStatusData
  /\ UNCHANGED gitRoot
  /\ TreeUnchanged

\* Lines 205-218: the call resolves with gitStatusData; the rest of the method
\* has no await and runs to its end without interruption.
checkGitDiffResume(gitStatusData) ==
  /\ pc = "awaiting"
  /\ LET gitStatusString == trimEnd(gitStatusData)
         hash == MD5(gitStatusString)
     IN IF hash = gitStatusHash
        THEN /\ ret' = [op |-> "checkGitDiff", outcome |-> "unchanged"]
             /\ UNCHANGED <<gitFilenames, gitStatusHash>>
        ELSE /\ gitStatusHash' = hash
             /\ gitFilenames' =
                  setGitFilenames(EmptyMap, gitRoot, split(gitStatusString, "\n"), 1)
             /\ ret' = [op |-> "checkGitDiff", outcome |-> "parsed"]
  /\ pc' = "idle"
  /\ fetched' = gitStatusData
  /\ UNCHANGED gitRoot
  /\ TreeUnchanged

\* checkGitDiff that has dropped the old Map before the call rejects
checkGitDiffThrowCleared ==
  /\ pc = "awaiting"
  /\ pc' = "idle"
  /\ ret' = [op |-> "checkGitDiff", outcome |-> "threw"]
  /\ gitFilenames' = EmptyMap
  /\ UNCHANGED <<gitRoot, gitStatusHash, fetched>>
  /\ TreeUnchanged

\* Line 205: the call rejects; nothing catches it, the method ends by throwing.
checkGitDiffThrow ==
  /\ pc = "awaiting"
  /\ pc' = "idle"
  /\ ret' = [op |-> "checkGitDiff", outcome |-> "threw"]
  /\ UNCHANGED <<gitRoot, gitFilenames, gitStatusHash, fetched>>
  /\ TreeUnchanged

\* Lines 165-166: getText asks for the status of one path; it may run while
\* checkGitDiff is suspended at its await.
statusFor(fullPath) ==
  /\ ret' = [op |-> "getGitStatus", fullPath |-> fullPath,
             result |-> getGitStatus(gitFilenames, fullPath)]
  /\ UNCHANGED <<gitRoot, gitFilenames, gitStatusHash, pc, fetched>>
  /\ TreeUnchanged

Init ==
  /\ gitRoot = Undefined
  /\ gitFilenames = EmptyMap
  /\ gitStatusHash = <<>>
  /\ lastFilenameInDir = EmptyMap
  /\ pc = "idle"
  /\ ret = Void
  /\ fetched = Undefined
  /\ items = <<>>
  /\ columnParams = [sort |-> "none", sortTreesFirst |-> FALSE]   \* params(), lines 186-191
  /\ phase = "idle"
  /\ lastWinner = EmptyMap

NextGit ==
  \/ \E out \in GitRootOutputs : initGit(out)
  \/ checkGitDiffCall
  \/ \E gitStatusData \in GitStatusOutputs : checkGitDiffResume(gitStatusData)
  \/ checkGitDiffThrow
  \/ \E fullPath \in Queries : statusFor(fullPath)

SpecGit == Init /\ [][NextGit]_vars

-----------------------------------------------------------------------------
(* Inputs of the tree indentation resolver: the host's items *)

Dir_s == RepoRoot \o <<"/", "s">>
Dir_t == RepoRoot \o <<"/", "t">>
Dir_d == Dir_s \o <<"/", "d">>

\* A DduItem of the file source: treePath and action.path are the absolute path.
FileItem(path, level, isTree, expanded, status) ==
  [ word |-> basename(path), treePath |-> path,
    action |-> [path |-> path, isLink |-> FALSE, realPath |-> path],
    level |-> level, isTree |-> isTree, expanded |-> expanded, status |-> status ]

ItemUniverse ==
  << FileItem(Dir_s, 0, TRUE, TRUE, [time |-> 2]),
     FileItem(Dir_s \o <<"/", "b", ".", "p", "y">>, 1, FALSE, FALSE, [time |-> 5]),
     FileItem(Dir_d, 1, TRUE, TRUE, [size |-> 1, time |-> 1]),
     FileItem(Dir_t \o <<"/", "h">>, 1, FALSE, FALSE, [size |-> 1, time |-> 5]),
     FileItem(Dir_d \o <<"/", "f">>, 2, FALSE, FALSE, [size |-> 0]),
     \* an item of another source: no treePath, no action.path
     [ word |-> <<"w">>, treePath |-> Undefined,
       action |-> [path |-> Undefined, isLink |-> FALSE, realPath |-> Undefined],
       level |-> 1, isTree |-> FALSE, expanded |-> FALSE, status |-> <<>> ] >>

\* Batches of up to MaxBatch distinct items, in any order
Batches ==
  { [i \in DOMAIN q |-> ItemUniverse[q[i]]] :
      q \in { r \in UNION { [1..n -> 1..Len(ItemUniverse)] : n \in 0..MaxBatch } :
                \A i, j \in DOMAIN r : i # j => r[i] # r[j] } }

SortParams == { "none", "extension", "size", "Size", "time", "filename" }

ColumnParams == [ sort : SortParams, sortTreesFirst : BOOLEAN ]

\* Lines 186-191
params == [sort |-> "none", sortTreesFirst |-> FALSE]

-----------------------------------------------------------------------------
(* Operations of a render pass *)

GitUnchanged == UNCHANGED <<gitRoot, gitFilenames, gitStatusHash, pc, fetched>>

\* The host starts a pass: it has a batch of items and the column's parameters.
hostRedraw(batch, columnParams_) ==
  /\ phase = "idle"
  /\ items' = batch
  /\ columnParams' = columnParams_
  /\ phase' = "pending"
  /\ ret' = Void
  /\ UNCHANGED <<lastFilenameInDir, lastWinner>>
  /\ GitUnchanged

\* Lines 114-119 and 145-150: the name shown for an item
displayPath(item) ==
  LET base == basename(Coalesce(item.action.path, item.word))
               \o (IF item.isTree THEN <<"/">> ELSE <<>>)
  IN IF item.action.isLink /\ item.action.path # Undefined
     THEN base \o <<" ", "-", ">", " ">> \o item.action.realPath
     ELSE base

\* Line 130: Math.max(...widths)
maxWidth(widths) ==
  IF widths = {} THEN "-Infinity"
  ELSE CHOOSE w \in widths : \A v \in widths : v <= w

\* Lines 101-131
getLength ==
  /\ phase = "pending"
  /\ lastFilenameInDir' = setLastFilenameInDir(lastFilenameInDir, items, columnParams)
  /\ ret' = [op |-> "getLength",
             length |-> maxWidth({ (items[i].level * 2) + 3 + 1 + strwidth(displayPath(items[i])) :
                                   i \in 1..Len(items) })]
  /\ phase' = "measured"
  /\ lastWinner' =
       LET sortedItems == sortedItemsOf(items, columnParams)
       IN IF sortedItems = <<>> THEN lastWinner
          ELSE LET path == Coalesce(Last(sortedItems).treePath, <<>>)
                   slashes == { i \in 1..Len(path) : path[i] = "/" }
                   cut == IF slashes = {} THEN 0
                          ELSE CHOOSE i \in slashes : \A j \in slashes : j <= i
               IN [x \in DOMAIN lastWinner \cup {SubSeq(path, 1, cut - 1)} |->
                     IF x = SubSeq(path, 1, cut - 1)
                     THEN SubSeq(path, cut + 1, Len(path))
                     ELSE lastWinner[x]]
  /\ UNCHANGED <<items, columnParams>>
  /\ GitUnchanged

\* Lines 133-184, for the i-th item of the batch.  The columns startCol and
\* endCol and the byte offsets of the highlights are the host's geometry and
\* are left out; the text is the one of line 176, before the padding.
getText(i) ==
  /\ phase = "measured"
  /\ LET item == items[i]
         path == displayPath(item)
         indent == getIndent(lastFilenameInDir, Coalesce(item.action.path, <<>>), item.level)
         iconData == getIcon(path, item.expanded, item.isTree, item.action.isLink)
         fullPath == Coalesce(item.action.path, <<>>) \o (IF item.isTree THEN <<"/">> ELSE <<>>)
         gitStatus == getGitStatus(gitFilenames, fullPath)
     IN ret' = [op |-> "getText", index |-> i,
                indent |-> indent,
                text |-> indent \o <<iconData.icon>> \o <<" ">> \o path,
                highlights |->
                  <<[name |-> "column-filename-icon",
                     hl_group |-> getHighlightName(iconData.highlightGroup)]>>
                  \o (IF gitStatus # Null
                      THEN <<[name |-> "column-filename-name",
                              hl_group |-> getHighlightName(gitStatus.highlightGroup)]>>
                      ELSE <<>>)]
  /\ UNCHANGED <<lastFilenameInDir, items, columnParams, phase, lastWinner>>
  /\ GitUnchanged

\* The pass is over; the host holds no batch until the next redraw.
endPass ==
  /\ phase = "measured"
  /\ phase' = "idle"
  /\ items' = <<>>
  /\ columnParams' = params
  /\ ret' = Void
  /\ UNCHANGED <<lastFilenameInDir, lastWinner>>
  /\ GitUnchanged

NextTree ==
  \/ \E batch \in Batches, columnParams_ \in ColumnParams : hostRedraw(batch, columnParams_)
  \/ getLength
  \/ \E i \in 1..Len(items) : getText(i)
  \/ endPass

SpecTree == Init /\ [][NextTree]_vars

-----------------------------------------------------------------------------
(* The icon lookup on its own *)

Name_a == <<"a">>

\* File names as getText hands them to getIcon
FileNames ==
  { Name_a \o <<".">> \o extensionIcons[i].key : i \in 1..Len(extensionIcons) }
    \cup { Name_a \o <<".", "P", "Y">>, Name_a \o <<".", "P", "y">>, Name_a,
           Name_a \o <<".">>, <<".", "v", "i", "m">>, <<".", ".">>,
           Name_a \o <<".", "t", "s", ".", "m", "d">>, Name_a \o <<".", "p">>,
           <<"p", "y">>, Name_a \o <<"/">> }

iconFor(fileName, expanded, isDirectory, isLink) ==
  /\ phase = "idle"
  /\ ret' = [op |-> "getIcon", fileName |-> fileName, expanded |-> expanded,
             isDirectory |-> isDirectory, isLink |-> isLink,
             result |-> getIcon(fileName, expanded, isDirectory, isLink)]
  /\ UNCHANGED <<lastFilenameInDir, items, columnParams, phase, lastWinner>>
  /\ GitUnchanged

NextIcon ==
  \E fileName \in FileNames, expanded \in BOOLEAN, isDirectory \in BOOLEAN, isLink \in BOOLEAN :
    iconFor(fileName, expanded, isDirectory, isLink)

SpecIcon == Init /\ [][NextIcon]_vars

\* The whole column.  The git status resolver and the tree indentation
\* resolver write disjoint fields, so their properties are checked under
\* SpecGit and SpecTree, and those of the pure getIcon under SpecIcon.
Next == NextGit \/ NextTree \/ NextIcon

Spec == Init /\ [][Next]_vars

TypeOK == pc \in {"idle", "awaiting"}

-----------------------------------------------------------------------------
(* Vocabulary of the properties of the git status resolver *)

\* a and b are the same text once trailing white space is dropped
SameAfterTrimEnd(a, b) ==
  \E n \in 0..Min(Len(a), Len(b)) :
    /\ SubSeq(a, 1, n) = SubSeq(b, 1, n)
    /\ \A i \in (n + 1)..Len(a) : IsSpace(a[i])
    /\ \A i \in (n + 1)..Len(b) : IsSpace(b[i])

\* The status code of a reported entry: XY without its blank column.
CodeOf(e) == SelectSeq(e.xy, LAMBDA c : c # " ")

KnownCodes == { gitStatuses[i].key : i \in 1..Len(gitStatuses) }

DescriptorOf(code) ==
  IF code \in KnownCodes
  THEN gitStatuses[CHOOSE i \in 1..Len(gitStatuses) : gitStatuses[i].key = code].value
  ELSE Null

\* The entries of the text delivered last, and the table they stand for.
EntriesOfOutput ==
  [ out \in GitStatusOutputs |->
      LET q == CHOOSE q \in LineSeqs :
                 out \in { PorcelainText(q), PorcelainText(q) \o <<"\n">> }
      IN [i \in DOMAIN q |-> StatusEntries[q[i]]] ]

FetchedEntries == EntriesOfOutput[fetched]

\* The same entries in another order
Reorderings(es) ==
  { [i \in DOMAIN es |-> es[f[i]]] :
      f \in { g \in [DOMAIN es -> DOMAIN es] : \A i, j \in DOMAIN es : i # j => g[i] # g[j] } }

TextOfEntries(es) == join([i \in DOMAIN es |-> PorcelainLine(es[i])], "\n")

KeyOf(e) == RepoRoot \o <<"/">> \o e.path

CompleteTable(es) ==
  IF es = <<>>
  THEN { <<RepoRoot \o <<"/">>, <<>>>> }    \* the empty text is one empty line
  ELSE { <<KeyOf(es[i]), CodeOf(es[i])>> : i \in 1..Len(es) }

TableEntries(m) == { <<m[i].key, m[i].value>> : i \in 1..Len(m) }

\* Directory paths, written with their trailing "/", on the way to path k
AncestorDirs(k) == { SubSeq(k, 1, n) : n \in { i \in 1..(Len(k) - 1) : k[i] = "/" } }

PrefixMatches(m, fullPath) == { i \in 1..Len(m) : StartsWith(m[i].key, fullPath) }

IsSmallestCode(c, codes) == c \in codes /\ \A d \in codes : ~StrLt(d, c)

Refreshed == gitRoot = RepoRoot /\ fetched # Undefined

-----------------------------------------------------------------------------
(* Properties of the git status resolver *)

\* C1: a checkGitDiff that receives a text equal, after trimming trailing white
\* space, to the text of the call before it leaves gitFilenames and
\* gitStatusHash as they were and does not parse again.
C1_RefreshIdempotent ==
  [][ ( /\ pc = "awaiting" /\ pc' = "idle"
        /\ ret'.outcome # "threw"
        /\ fetched # Undefined
        /\ SameAfterTrimEnd(fetched', fetched) )
      => ( /\ gitFilenames' = gitFilenames
           /\ gitStatusHash' = gitStatusHash
           /\ ret'.outcome = "unchanged" ) ]_vars

C1_Witness ==
  /\ ret = [op |-> "checkGitDiff", outcome |-> "unchanged"]
  /\ Len(gitFilenames) = 2
  /\ fetched[Len(fetched)] = "\n"

\* C2: when the queried path is not a key and at least two keys start with it,
\* getGitStatus returns the descriptor of the lexicographically smallest code
\* among those keys, whatever the order of the lines in the porcelain text.
C2_PrefixTieBreak ==
  \A fullPath \in Queries :
    ( /\ ~MapHas(gitFilenames, fullPath)
      /\ Cardinality(PrefixMatches(gitFilenames, fullPath)) >= 2 )
    => /\ \E i \in PrefixMatches(gitFilenames, fullPath) :
            /\ IsSmallestCode(gitFilenames[i].value,
                 { gitFilenames[j].value : j \in PrefixMatches(gitFilenames, fullPath) })
            /\ getGitStatus(gitFilenames, fullPath) = DescriptorOf(gitFilenames[i].value)
       /\ Refreshed =>
            \A es \in Reorderings(FetchedEntries) :
              getGitStatus(
                setGitFilenames(EmptyMap, gitRoot, split(TextOfEntries(es), "\n"), 1),
                fullPath) = getGitStatus(gitFilenames, fullPath)

\* "D  s/g" first and "A  s/f" second: the directory /r/s/ shows A.
C2_Witness ==
  /\ ret.op = "getGitStatus"
  /\ ret.fullPath = RepoRoot \o <<"/", "s", "/">>
  /\ MapKeys(gitFilenames) = << KeyOf(StatusEntries[2]), KeyOf(StatusEntries[1]) >>
  /\ ret.result = DescriptorOf(<<"A">>)
  /\ ret.result.highlightGroup = "git_add"

\* C3: after a refresh with one line of known code c and path p, getGitStatus
\* returns the descriptor of c for root/p and for every ancestor directory of
\* that file written with its trailing "/".
C3_ExactAndAncestor ==
  ( /\ Refreshed
    /\ Len(FetchedEntries) = 1
    /\ CodeOf(FetchedEntries[1]) \in KnownCodes )
  => LET e == FetchedEntries[1]
     IN /\ getGitStatus(gitFilenames, KeyOf(e)) = DescriptorOf(CodeOf(e))
        /\ \A d \in AncestorDirs(KeyOf(e)) :
             getGitStatus(gitFilenames, d) = DescriptorOf(CodeOf(e))

\* "M  s/d/f": asked for /r/s/d/, answered with the descriptor of M.
C3_Witness ==
  /\ Refreshed
  /\ FetchedEntries = << StatusEntries[6] >>
  /\ ret.op = "getGitStatus"
  /\ ret.fullPath = RepoRoot \o <<"/", "s", "/", "d", "/">>
  /\ ret.result.highlightGroup = "git_modified"

\* C7: whenever a read can run (also while checkGitDiff is suspended at its
\* await) gitFilenames is the complete table of the text delivered last, stored
\* together with that text's fingerprint, or both are still in their initial
\* state; every getGitStatus answers from such a complete table.
C7_AtomicReplacement ==
  /\ ~Refreshed => gitFilenames = EmptyMap /\ gitStatusHash = <<>>
  /\ Refreshed =>
       /\ TableEntries(gitFilenames) = CompleteTable(FetchedEntries)
       /\ Len(gitFilenames) = Cardinality(CompleteTable(FetchedEntries))
       /\ gitStatusHash = MD5(TextOfEntries(FetchedEntries))
  /\ ret.op = "getGitStatus" =>
       ret.result = getGitStatus(gitFilenames, ret.fullPath)

\* A read while the second refresh is in flight sees the first table.
C7_Witness ==
  /\ pc = "awaiting"
  /\ ret.op = "getGitStatus"
  /\ ret.result # Null
  /\ Len(gitFilenames) = 2

\* C8: when the awaited 'git status' call fails, checkGitDiff ends by throwing
\* and gitFilenames and gitStatusHash stay as they were, so every query is
\* answered as before the call.
C8_FailedRefreshKeepsState ==
  [][ (pc = "awaiting" /\ pc' = "idle" /\ ret'.outcome = "threw")
      => ( /\ gitFilenames' = gitFilenames
           /\ gitStatusHash' = gitStatusHash
           /\ \A fullPath \in Queries :
                getGitStatus(gitFilenames', fullPath) = getGitStatus(gitFilenames, fullPath) ) ]_vars

C8_Witness ==
  /\ ret = [op |-> "checkGitDiff", outcome |-> "threw"]
  /\ gitStatusHash # <<>>
  /\ Len(gitFilenames) = 2

\* The keys of m whose file lies in the directory fullPath (written with its
\* trailing "/") or below it
AncestorMatches(m, fullPath) == { i \in 1..Len(m) : fullPath \in AncestorDirs(m[i].key) }

\* C11: in the fallback of getGitStatus a key counts only when the queried path
\* is an ancestor directory of the key's file: the answer is the one the keys
\* below that directory give, and a path that is neither a key nor an ancestor
\* directory of any key (an unchanged file, without trailing "/") gets null.
C11_PrefixMeansAncestor ==
  \A fullPath \in Queries :
    ~MapHas(gitFilenames, fullPath) =>
      LET below == AncestorMatches(gitFilenames, fullPath)
          codes == { gitFilenames[i].value : i \in below }
      IN IF below = {}
         THEN getGitStatus(gitFilenames, fullPath) = Null
         ELSE \E c \in codes :
                /\ IsSmallestCode(c, codes)
                /\ getGitStatus(gitFilenames, fullPath) = DescriptorOf(c)

\* The code getGitStatus goes by: the one of the key fullPath, else the
\* smallest one of the keys that start with fullPath, NullStr if there is none
SelectedCode(m, fullPath) ==
  LET codes == { m[i].value : i \in PrefixMatches(m, fullPath) }
  IN IF MapHas(m, fullPath) THEN m[CHOOSE i \in 1..Len(m) : m[i].key = fullPath].value
     ELSE IF codes = {} THEN NullStr
     ELSE CHOOSE c \in codes : IsSmallestCode(c, codes)

\* C12: getGitStatus returns null whenever the code it goes by is not a key of
\* gitStatuses, also when other keys that start with the path carry known
\* codes; for a path that is a key with an unknown code the scan has no say.
C12_UnknownCodeIsNone ==
  \A fullPath \in Queries :
    LET c == SelectedCode(gitFilenames, fullPath)
    IN (c # NullStr /\ c \notin KnownCodes) => getGitStatus(gitFilenames, fullPath) = Null

\* "AM s/f" and "A  s/fb": /r/s/f is a key with the unknown code AM, the key
\* /r/s/fb starts with it and carries A; the answer is null.
C12_Witness ==
  /\ ret.op = "getGitStatus"
  /\ ret.fullPath = RepoRoot \o <<"/", "s", "/", "f">>
  /\ TableEntries(gitFilenames) = { <<KeyOf(StatusEntries[5]), <<"A", "M">>>>,
                                    <<KeyOf(StatusEntries[7]), <<"A">>>> }
  /\ <<"A">> \in KnownCodes
  /\ ret.result = Null

\* The lines of a text: what stands between two line ends, or a line end and
\* an end of the text
LinesOf(t) ==
  LET ends == { i \in 1..Len(t) : t[i] = "\n" } \cup {0, Len(t) + 1}
  IN { SubSeq(t, a + 1, b - 1) :
         <<a, b>> \in { ab \in ends \X ends :
                          ab[1] < ab[2] /\ \A e \in ends : ~(ab[1] < e /\ e < ab[2]) } }

\* A field without the white space around it
Trimmed(f) ==
  LET inked == { i \in 1..Len(f) : ~IsSpace(f[i]) }
  IN IF inked = {} THEN <<>>
     ELSE SubSeq(f, CHOOSE i \in inked : \A j \in inked : i <= j,
                    CHOOSE i \in inked : \A j \in inked : j <= i)

\* The table a trimmed text stands for under the root: for each line the key
\* root/(the line from its 4th character on), the value its first 3 characters
\* trimmed
ParseOf(root, t) ==
  { << root \o <<"/">> \o SubSeq(l, 4, Len(l)), Trimmed(SubSeq(l, 1, Min(3, Len(l)))) >> :
      l \in LinesOf(t) }

NoRoot == gitRoot = <<>> \/ gitRoot = Undefined

\* C14: in every state either gitStatusHash is its initial '' and gitFilenames
\* is empty, or gitFilenames is exactly the parse of the one trimmed porcelain
\* text whose hash is gitStatusHash, one entry per line and no key of an
\* earlier text; a checkGitDiff with gitRoot '' or undefined changes neither.
C14_TableMatchesFingerprint ==
  /\ [](\/ gitStatusHash = <<>> /\ gitFilenames = EmptyMap
        \/ \E t \in PorcelainTexts :
             /\ gitStatusHash = MD5(t)
             /\ \A u \in PorcelainTexts : MD5(u) = gitStatusHash => u = t
             /\ TableEntries(gitFilenames) = ParseOf(gitRoot, t)
             /\ Len(gitFilenames) = Cardinality(ParseOf(gitRoot, t)))
  /\ [][ (NoRoot /\ ret'.op = "checkGitDiff")
         => ( /\ gitFilenames' = gitFilenames
              /\ gitStatusHash' = gitStatusHash
              /\ ret'.outcome = "noRoot"
              /\ pc' = "idle" ) ]_vars

\* The text " M a" with its line end has been parsed: the fingerprint is the
\* one of " M a" and the table holds /r/a alone, whatever it held before.
C14_Witness ==
  /\ ret = [op |-> "checkGitDiff", outcome |-> "parsed"]
  /\ gitStatusHash = MD5(PorcelainLine(StatusEntries[3]))
  /\ fetched = PorcelainLine(StatusEntries[3]) \o <<"\n">>
  /\ TableEntries(gitFilenames) = { << RepoRoot \o <<"/", "a">>, <<"M">> >> }

-----------------------------------------------------------------------------
(* Vocabulary of the properties of the tree indentation resolver *)

LastSlash(path) ==
  LET slashes == { i \in 1..Len(path) : path[i] = "/" }
  IN IF slashes = {} THEN 0 ELSE CHOOSE i \in slashes : \A j \in slashes : j <= i

ParentPath(path) == SubSeq(path, 1, LastSlash(path) - 1)
NameOf(path) == SubSeq(path, LastSlash(path) + 1, Len(path))

\* Positions in the batch of the entries of the deepest tier
Tier(its) == { i \in 1..Len(its) : \A j \in 1..Len(its) : its[j].level <= its[i].level }

TierLevel(its) == its[CHOOSE i \in Tier(its) : TRUE].level

\* The tier has paths, and they are children of one directory
OneParent(its) ==
  /\ \A i \in Tier(its) : its[i].treePath # Undefined /\ its[i].action.path = its[i].treePath
  /\ \A i, j \in Tier(its) : ParentPath(its[i].treePath) = ParentPath(its[j].treePath)

\* Entry j comes before entry i: directories first if asked for, then by
\* "less", then by position in the batch.
Before(its, treesFirst, less(_, _), j, i) ==
  IF treesFirst /\ its[j].isTree # its[i].isTree
  THEN its[j].isTree
  ELSE \/ less(its[j], its[i])
       \/ ~less(its[i], its[j]) /\ j < i

\* The position of the entry that is last in that order
LastOf(its, treesFirst, less(_, _)) ==
  CHOOSE i \in Tier(its) : \A j \in Tier(its) \ {i} : Before(its, treesFirst, less, j, i)

FilenameLess(a, b) == StrLt(a.treePath, b.treePath)

SizeOf(item) == IF "size" \in DOMAIN item.status THEN item.status.size ELSE 0 - 1

SizeLess(a, b) == SizeOf(a) < SizeOf(b)

\* The last glyph of an indentation, <<>> if it has none
InnermostGlyph(indent) ==
  IF Len(indent) >= 2 THEN SubSeq(indent, Len(indent) - 1, Len(indent)) ELSE <<>>

IndentOfItem(item) == getIndent(lastFilenameInDir, item.action.path, item.level)

\* The record of a parent path, Undefined if it has none
RecordFor(parentPath) == TableGet(lastFilenameInDir, parentPath, Undefined)

Recorded(item) == RecordFor(ParentPath(item.treePath)) = NameOf(item.treePath)

FilenamePass ==
  /\ phase = "measured"
  /\ items # <<>>
  /\ toLowerCase(columnParams.sort) = "filename"
  /\ OneParent(items)

LastSiblingMarked ==
  LET w == LastOf(items, columnParams.sortTreesFirst, FilenameLess)
  IN /\ Recorded(items[w])
     /\ InnermostGlyph(IndentOfItem(items[w])) = Corner
     /\ \A i \in Tier(items) \ {w} : InnermostGlyph(IndentOfItem(items[i])) = Tee

\* Paths getText hands to getIndent: action.path, or '' for an item without one
IndentPaths ==
  { Coalesce(ItemUniverse[i].action.path, <<>>) : i \in 1..Len(ItemUniverse) }

-----------------------------------------------------------------------------
(* Properties of the tree indentation resolver *)

\* C4 as stated: after setLastFilenameInDir with the filename sort on a batch
\* whose deepest tier has one parent, the last entry of the sorted, directories-
\* first-adjusted order is recorded for the parent, getIndent ends in the corner
\* glyph for it and in the tee glyph for every other sibling.
C4_LastSiblingMarked_AnyLevel == FilenamePass => LastSiblingMarked

\* C4, amended: the same for a deepest tier of nesting level 1 or more (an
\* entry of level 0 has no glyph at all).
C4_LastSiblingMarked == (FilenamePass /\ TierLevel(items) >= 1) => LastSiblingMarked

\* /r/s/d before /r/s/b.py in the batch, directories first: b.py is last.
C4_Witness ==
  /\ FilenamePass
  /\ columnParams.sortTreesFirst
  /\ items = << ItemUniverse[2], ItemUniverse[3] >>
  /\ RecordFor(Dir_s) = <<"b", ".", "p", "y">>
  /\ IndentOfItem(items[1]) = Corner
  /\ IndentOfItem(items[2]) = Tee

\* C5: getIndent(path, n) is n glyphs of two characters, for every path and
\* every n >= 0, in every state of lastFilenameInDir.
C5_IndentLength ==
  \A path \in IndentPaths, n \in 0..MaxLevel :
    Len(getIndent(lastFilenameInDir, path, n)) = 2 * n

\* C6: one setLastFilenameInDir looks at the deepest tier only and writes at
\* most the key of the parent of the last element of the sorted, adjusted tier;
\* every other key keeps its value and an empty batch changes nothing.  Hence
\* the record of a parent is the last element of the latest pass that ended in
\* that parent.
C6_OnePassOneKey ==
  /\ [][ (phase = "pending" /\ phase' = "measured")
         => LET tier == [k \in 1..Cardinality(Tier(items)) |->
                          items[CHOOSE i \in Tier(items) :
                                  Cardinality({ j \in Tier(items) : j < i }) = k - 1]]
                sortedItems == sortedItemsOf(tier, columnParams)
                written == IF sortedItems = <<>> THEN {}
                           ELSE { ParentPath(Coalesce(Last(sortedItems).treePath, <<>>)) }
            IN /\ lastFilenameInDir' = setLastFilenameInDir(lastFilenameInDir, tier, columnParams)
               /\ DOMAIN lastFilenameInDir' = DOMAIN lastFilenameInDir \cup written
               /\ \A k \in DOMAIN lastFilenameInDir \ written :
                    lastFilenameInDir'[k] = lastFilenameInDir[k]
               /\ \A k \in written :
                    lastFilenameInDir'[k] = NameOf(Coalesce(Last(sortedItems).treePath, <<>>))
               /\ items = <<>> => lastFilenameInDir' = lastFilenameInDir ]_vars
  /\ [](DOMAIN lastFilenameInDir = DOMAIN lastWinner
        /\ \A k \in DOMAIN lastWinner : lastFilenameInDir[k] = lastWinner[k])

\* A pass ended in /r/t/h; the record of /r/s from an earlier pass is kept.
C6_Witness ==
  /\ phase = "measured"
  /\ Len(items) = 2
  /\ { items[i].level : i \in 1..Len(items) } = {0, 1}
  /\ Cardinality(DOMAIN lastFilenameInDir) >= 2
  /\ Dir_s \in DOMAIN lastFilenameInDir
  /\ Dir_t \in DOMAIN lastFilenameInDir
  /\ RecordFor(Dir_t) = <<"h">>

SizePass ==
  /\ phase = "measured"
  /\ items # <<>>
  /\ toLowerCase(columnParams.sort) = "size"

\* The tier as the size sort leaves it
SizeOrder == sort(levelItemsOf(items), "size")

SizeOrdered ==
  LET order == SizeOrder
  IN /\ Len(order) = Cardinality(Tier(items))
     /\ { order[k] : k \in 1..Len(order) } = { items[i] : i \in Tier(items) }
     /\ \A k, l \in 1..Len(order) :
          k < l =>
            /\ SizeOf(order[k]) <= SizeOf(order[l])
            /\ ~("size" \in DOMAIN order[k].status /\ "size" \notin DOMAIN order[l].status)
            /\ SizeOf(order[k]) = SizeOf(order[l]) =>
                 \E i, j \in Tier(items) : i < j /\ items[i] = order[k] /\ items[j] = order[l]

\* C9 as stated: with the size sort the tier is in ascending size, unknown
\* sizes (-1) first, equal sizes in input order, and the last element of this
\* order is the last-sibling winner.
C9_SizeSort_LastOfSizeOrder ==
  SizePass =>
    /\ SizeOrdered
    /\ LET w == Last(SizeOrder)
       IN RecordFor(ParentPath(Coalesce(w.treePath, <<>>)))
            = NameOf(Coalesce(w.treePath, <<>>))

\* C9, amended: the winner is the last element of this order once the
\* directories have been moved to the front when sortTreesFirst is set.
C9_SizeSort ==
  SizePass =>
    /\ SizeOrdered
    /\ LET w == items[LastOf(items, columnParams.sortTreesFirst, SizeLess)]
       IN RecordFor(ParentPath(Coalesce(w.treePath, <<>>)))
            = NameOf(Coalesce(w.treePath, <<>>))

\* /r/s/d (size 1) before /r/s/b.py (size unknown) in the batch: b.py sorts
\* first and d is the winner.
C9_Witness ==
  /\ SizePass
  /\ columnParams = [sort |-> "Size", sortTreesFirst |-> FALSE]
  /\ items = << ItemUniverse[3], ItemUniverse[2] >>
  /\ SizeOrder = << ItemUniverse[2], ItemUniverse[3] >>
  /\ RecordFor(Dir_s) = <<"d">>

\* The segments of a path, the innermost one last
Segments(path) == split(path, "/")

\* Step k of the walk (k = 0 is the entry itself): its segment and its parent
StepName(path, k) == Segments(path)[Len(Segments(path)) - k]
StepParent(path, k) == join(SubSeq(Segments(path), 1, Len(Segments(path)) - k - 1), "/")

\* The step is last: its parent has a record and the record is its segment
StepIsLast(path, k) ==
  /\ StepParent(path, k) \in DOMAIN lastFilenameInDir
  /\ lastFilenameInDir[StepParent(path, k)] = StepName(path, k)

StepGlyph(path, k) ==
  IF k = 0 THEN (IF StepIsLast(path, k) THEN Corner ELSE Tee)
  ELSE (IF StepIsLast(path, k) THEN Blank ELSE Bar)

\* The glyphs of steps k, k - 1, ..., 0, the outermost on the left
RECURSIVE GlyphsFrom(_, _)
GlyphsFrom(path, k) ==
  IF k < 0 THEN <<>>
  ELSE StepGlyph(path, k) \o GlyphsFrom(path, k - 1)

\* C13: each step of the walk of getIndent counts as last exactly when
\* lastFilenameInDir has a record for the step's parent path and the record is
\* the step's segment; the innermost step gives the corner glyph if last and
\* the tee glyph otherwise, an outer step two blanks if last and the bar
\* otherwise, a parent without record is never last, and the glyphs stand
\* from the outermost ancestor on the left to the entry on the right.
C13_AncestorGlyphs ==
  \A path \in IndentPaths, n \in 0..MaxLevel :
    getIndent(lastFilenameInDir, path, n)
      = GlyphsFrom(path, Min(n, Len(Segments(path))) - 1)

-----------------------------------------------------------------------------
(* Properties of the icon lookup *)

\* The extension of a file name: what follows its last ".", if that "." has a
\* character other than "." somewhere before it.
ExtensionOf(fileName) ==
  LET dots == { i \in 2..Len(fileName) :
                  fileName[i] = "." /\ \E j \in 1..(i - 1) : fileName[j] \notin {".", "/"} }
  IN IF dots = {} THEN <<>>
     ELSE SubSeq(fileName, (CHOOSE i \in dots : \A j \in dots : j <= i) + 1, Len(fileName))

SpecialIcon(kind) ==
  specialIcons[CHOOSE i \in 1..Len(specialIcons) : specialIcons[i].key = kind].value

\* C10: getIcon returns the expanded-directory descriptor if expanded, else the
\* linked-directory one for a directory that is a link, else the directory one,
\* else the link one, else the entry of the extension table whose key is
\* exactly the extension, else the default file descriptor.
C10_IconResolution ==
  ret.op = "getIcon" =>
    ret.result =
      IF ret.expanded THEN SpecialIcon("directory_expanded")
      ELSE IF ret.isDirectory /\ ret.isLink THEN SpecialIcon("directory_link")
      ELSE IF ret.isDirectory THEN SpecialIcon("directory")
      ELSE IF ret.isLink THEN SpecialIcon("link")
      ELSE IF \E i \in 1..Len(extensionIcons) : extensionIcons[i].key = ExtensionOf(ret.fileName)
           THEN extensionIcons[CHOOSE i \in 1..Len(extensionIcons) :
                                 extensionIcons[i].key = ExtensionOf(ret.fileName)].value
      ELSE defaultFileIcon

\* "a.PY" is not "a.py": the default file descriptor.
C10_Witness ==
  /\ ret.op = "getIcon"
  /\ ret.fileName = <<"a", ".", "P", "Y">>
  /\ ~ret.expanded /\ ~ret.isDirectory /\ ~ret.isLink
  /\ ret.result = defaultFileIcon

====
